---- MODULE Spec2Model ----
(***************************************************************************)
(* The eBay sold-items dashboard (dashboard.py): one Streamlit script that *)
(* is re-run from the top on every user interaction.  A run connects to    *)
(* MySQL, serves the item detail page when the item_id query parameter is  *)
(* present, and otherwise renders the date widgets and the Run Query       *)
(* button, runs the aggregation when the button was clicked, and filters   *)
(* and pages the stored result set.  Only st.session_state survives from   *)
(* one run to the next.                                                    *)
(***************************************************************************)
EXTENDS Integers, Sequences, FiniteSets, TLC

VARIABLES
    daily_sold_items,   \* table d: row -> number of copies stored
    item_sold_dates,    \* table s: row -> number of copies stored
    session_state,      \* st.session_state: the keys set so far and their values
    pc,                 \* position of the current script run
    query_button,       \* value st.button returned in this run
    button_disabled,    \* the disabled= argument the button was rendered with
    start_date,         \* date widgets' values read by the query block
    end_date,
    db_raised,          \* which call of this run the store made raise
    error,              \* the st.error message of this run
    calls,              \* how often this run called connect / the aggregation
    item_id,            \* the item_id query parameter of this run
    item,               \* row the detail page's fetchone returned
    filters,            \* the filter widgets' values of this run
    df_filtered,        \* the filtered rows of this run
    page_data,          \* the page of df_filtered that is displayed
    first_read          \* history (SpecRecorded): the session's first detail lookup

vars == <<daily_sold_items, item_sold_dates, session_state, pc,
          query_button, button_disabled, start_date, end_date, db_raised,
          error, calls, item_id, item, filters, df_filtered, page_data,
          first_read>>

----------------------------------------------------------------------------
(* Bounds of the model. *)

MaxItemRows == 2        \* rows stored in daily_sold_items
MaxSaleRows == 2        \* rows stored in item_sold_dates

(* Values that stand for "no value". *)
NullStr   == <<"NULL">>                 \* SQL NULL in a searched text column
NoRow     == [found |-> FALSE]          \* fetchone returned None / not called
NoDate    == [year |-> 0, month |-> 0, day |-> 0]
NoFilters == [shown |-> FALSE]          \* the filter widgets were not rendered

----------------------------------------------------------------------------
(* Strings are sequences of characters, so that containment and case are   *)
(* computed rather than assumed.                                           *)

Upper(c) ==
    CASE c = "a" -> "A"
      [] c = "b" -> "B"
      [] c = "c" -> "C"
      [] c = "x" -> "X"
      [] OTHER   -> c

UpperStr(str) == [k \in 1..Len(str) |-> Upper(str[k])]

\* Python's  pat in text  on strings.
IsSubstring(pat, text) ==
    \E o \in 0..(Len(text) - Len(pat)) :
        \A k \in 1..Len(pat) : text[o + k] = pat[k]

\* pandas  Series.str.contains(pat, case=False, na=False, regex=False)  on one
\* value: both sides upper-cased, a missing value gives False.
\* (Variant: the comparison made with case=True.)
StrContainsCaseSensitive(value, pat) ==
    IF value = NullStr THEN FALSE ELSE IsSubstring(pat, value)

StrContains(value, pat) ==
    IF value = NullStr THEN FALSE
    ELSE IsSubstring(UpperStr(pat), UpperStr(value))

----------------------------------------------------------------------------
(* Dates.  The widgets give datetime.date values; the query receives them  *)
(* formatted by strftime('%Y-%m-%d') and MySQL reads the strings back as   *)
(* dates for the BETWEEN on the DATE column.                               *)

Dates == { [year |-> 2023, month |-> 12, day |-> 31],
           [year |-> 2024, month |-> 1,  day |-> 15] }

DigitChar(n) ==
    CASE n = 0 -> "0" [] n = 1 -> "1" [] n = 2 -> "2" [] n = 3 -> "3"
      [] n = 4 -> "4" [] n = 5 -> "5" [] n = 6 -> "6" [] n = 7 -> "7"
      [] n = 8 -> "8" [] n = 9 -> "9"

DigitValue(c) == CHOOSE n \in 0..9 : DigitChar(n) = c

StrFTime(d) ==
    << DigitChar(d.year \div 1000), DigitChar((d.year \div 100) % 10),
       DigitChar((d.year \div 10) % 10), DigitChar(d.year % 10), "-",
       DigitChar(d.month \div 10), DigitChar(d.month % 10), "-",
       DigitChar(d.day \div 10), DigitChar(d.day % 10) >>

ParseDate(str) ==
    [ year  |-> 1000 * DigitValue(str[1]) + 100 * DigitValue(str[2])
                + 10 * DigitValue(str[3]) + DigitValue(str[4]),
      month |-> 10 * DigitValue(str[6]) + DigitValue(str[7]),
      day   |-> 10 * DigitValue(str[9]) + DigitValue(str[10]) ]

DateLE(a, b) ==
    \/ a.year < b.year
    \/ a.year = b.year /\ a.month < b.month
    \/ a.year = b.year /\ a.month = b.month /\ a.day <= b.day

\* (Variant: only the upper end of the range compared.)
BetweenUpperOnly(sold_date, start_str, end_str) ==
    DateLE(sold_date, ParseDate(end_str))

\* sold_date BETWEEN %s AND %s
Between(sold_date, start_str, end_str) ==
    /\ DateLE(ParseDate(start_str), sold_date)
    /\ DateLE(sold_date, ParseDate(end_str))

----------------------------------------------------------------------------
(* The two tables.  A table is a multiset of rows: the same row may be     *)
(* stored more than once, and the storage order is the engine's.           *)

ItemIds == {"i1", "i2"}
Quantities == {1, 2}

\* Attribute snapshots an item row may carry.
Attributes ==
    { [title |-> <<"A", "b">>, price |-> 1, product_url |-> "u", sku |-> NullStr,
       image_url |-> "img1"],
      [title |-> <<"A", "b">>, price |-> 1, product_url |-> "u", sku |-> NullStr,
       image_url |-> "NULL"],
      [title |-> <<"c">>, price |-> 2, product_url |-> "u", sku |-> <<"x">>,
       image_url |-> "img1"] }

ItemRows ==
    { [ebay_item_number |-> i, title |-> a.title, price |-> a.price,
       product_url |-> a.product_url, sku |-> a.sku, image_url |-> a.image_url] :
      i \in ItemIds, a \in Attributes }

SaleRows ==
    { [ebay_item_number |-> i, sold_date |-> d, quantity_sold |-> q] :
      i \in ItemIds, d \in Dates, q \in Quantities }

RECURSIVE TablesUpTo(_, _)
TablesUpTo(Rows, n) ==
    IF n = 0 THEN { [r \in Rows |-> 0] }
    ELSE LET smaller == TablesUpTo(Rows, n - 1)
         IN  smaller \cup { [t EXCEPT ![r] = @ + 1] : t \in smaller, r \in Rows }

Stored(table) == { r \in DOMAIN table : table[r] > 0 }

RECURSIVE SumOver(_, _)
SumOver(f, S) ==
    IF S = {} THEN 0
    ELSE LET x == CHOOSE y \in S : TRUE
         IN  f[x] + SumOver(f, S \ {x})

----------------------------------------------------------------------------
(* summary_query: the aggregation of the Run Query block.                  *)

\* FROM daily_sold_items d JOIN item_sold_dates s ON d.ebay_item_number =
\* s.ebay_item_number WHERE s.sold_date BETWEEN %s AND %s : the pairs of
\* stored rows the inner join keeps.
\* (Variant: the join without its ON condition.)
JoinRowsWithoutOn(d, s, start_str, end_str) ==
    { <<dr, sr>> \in Stored(d) \X Stored(s) :
        Between(sr.sold_date, start_str, end_str) }

JoinRows(d, s, start_str, end_str) ==
    { <<dr, sr>> \in Stored(d) \X Stored(s) :
        /\ dr.ebay_item_number = sr.ebay_item_number
        /\ Between(sr.sold_date, start_str, end_str) }

\* GROUP BY d.ebay_item_number, d.title, d.price, d.product_url, d.sku
GroupKey(dr) ==
    [ebay_item_number |-> dr.ebay_item_number, title |-> dr.title,
     price |-> dr.price, product_url |-> dr.product_url, sku |-> dr.sku]

\* SUM(s.quantity_sold) over the joined rows of one group; a pair of rows
\* stored m and n times is joined m * n times.
TotalQuantitySold(d, s, joined, key) ==
    LET members == { p \in joined : GroupKey(p[1]) = key }
        weight  == [p \in members |-> d[p[1]] * s[p[2]] * p[2].quantity_sold]
    IN  SumOver(weight, members)

\* The rows of the SELECT, before ORDER BY.
SummaryRows(d, s, start_str, end_str) ==
    LET joined == JoinRows(d, s, start_str, end_str)
        keys   == { GroupKey(p[1]) : p \in joined }
    IN  { [ebay_item_number |-> k.ebay_item_number, title |-> k.title,
           price |-> k.price, product_url |-> k.product_url, sku |-> k.sku,
           total_quantity_sold |-> TotalQuantitySold(d, s, joined, k)] :
          k \in keys }

\* ORDER BY total_quantity_sold DESC: every listing of the rows with the
\* totals non-increasing; rows with equal totals come in the engine's order.
RECURSIVE OrderByTotalDesc(_)
OrderByTotalDesc(rows) ==
    IF rows = {} THEN { <<>> }
    ELSE UNION { { <<r>> \o rest : rest \in OrderByTotalDesc(rows \ {r}) } :
                 r \in { x \in rows : \A y \in rows :
                            x.total_quantity_sold >= y.total_quantity_sold } }

\* cursor.execute(summary_query, (start_str, end_str)); cursor.fetchall()
SummaryQuery(d, s, start_str, end_str) ==
    OrderByTotalDesc(SummaryRows(d, s, start_str, end_str))

\* SELECT ... FROM daily_sold_items WHERE ebay_item_number = %s ; fetchone():
\* the rows the engine may return first (NoRow when none matches).
FetchItem(d, id) ==
    LET matching == { r \in Stored(d) : r.ebay_item_number = id }
    IN  IF matching = {} THEN { NoRow } ELSE matching

----------------------------------------------------------------------------
(* The filter block of the results table.                                  *)

TitleFilters == { <<>>, <<"B">> }       \* st.text_input("Filter by Title")
SkuFilters   == { <<>>, <<"X">> }       \* st.text_input("Filter by SKU")

Column(df, name) == { df[k][name] : k \in 1..Len(df) }
Min(S) == CHOOSE x \in S : \A y \in S : x <= y
Max(S) == CHOOSE x \in S : \A y \in S : x >= y

\* st.slider(label, lo, hi, (lo, hi)): the pairs the user can select, here
\* with each handle at a value that occurs in the column.
Slider(lo, hi, stops) ==
    { <<a, b>> \in stops \X stops : lo <= a /\ a <= b /\ b <= hi }

\* The values the filter widgets can return for the stored frame df.
FilterInputs(df) ==
    LET price_min == Min(Column(df, "price"))
        price_max == Max(Column(df, "price"))
        qty_min   == Min(Column(df, "total_quantity_sold"))
        qty_max   == Max(Column(df, "total_quantity_sold"))
    IN  { [shown |-> TRUE, title_filter |-> tf, sku_filter |-> sf,
           price_range |-> pr, qty_range |-> qr] :
          tf \in TitleFilters, sf \in SkuFilters,
          pr \in Slider(price_min, price_max, Column(df, "price")),
          qr \in IF qty_min < qty_max
                 THEN Slider(qty_min, qty_max, Column(df, "total_quantity_sold"))
                 ELSE { <<qty_min, qty_max>> } }

\* The widgets' values when the user touches none of them.
DefaultFilters(df) ==
    [shown |-> TRUE, title_filter |-> <<>>, sku_filter |-> <<>>,
     price_range |-> <<Min(Column(df, "price")), Max(Column(df, "price"))>>,
     qty_range |-> <<Min(Column(df, "total_quantity_sold")),
                     Max(Column(df, "total_quantity_sold"))>>]

\* df_filtered, computed as the script does: one boolean-mask selection
\* after the other on a copy of df.
ApplyFilters(df, f) ==
    LET TitleOk(row) == StrContains(row.title, f.title_filter)
        SkuOk(row)   == StrContains(row.sku, f.sku_filter)
        InRanges(row) ==
            /\ row.price >= f.price_range[1]
            /\ row.price <= f.price_range[2]
            /\ row.total_quantity_sold >= f.qty_range[1]
            /\ row.total_quantity_sold <= f.qty_range[2]
        by_title == IF f.title_filter # <<>> THEN SelectSeq(df, TitleOk) ELSE df
        by_sku   == IF f.sku_filter # <<>> THEN SelectSeq(by_title, SkuOk)
                    ELSE by_title
    IN  SelectSeq(by_sku, InRanges)

\* df_filtered = df.copy(): filtering leaves the stored frame alone.
\* (Variant: the stored frame itself filtered.)
AfterApplyFiltersInPlace(state, filtered) ==
    [state EXCEPT !.df_results = filtered]

AfterApplyFilters(state, filtered) == state

items_per_page == 500

\* page_data = df_filtered.iloc[start_idx:end_idx]
TotalPages(df) == (Len(df) - 1) \div items_per_page + 1

PageData(df, page) ==
    LET start_idx == (page - 1) * items_per_page
        end_idx   == start_idx + items_per_page
        last      == IF end_idx < Len(df) THEN end_idx ELSE Len(df)
    IN  SubSeq(df, start_idx + 1, last)

----------------------------------------------------------------------------
(* The Run Query block's effects on st.session_state.                      *)

\* lines 107-111: the fetched rows, or an empty frame, become df_results.
StoreResults(state, rows) == [state EXCEPT !.df_results = rows]

\* except Error: st.error(...); df_results = pd.DataFrame()
\* (Variant: the handler only shows the error.)
ExceptHandlerKeepsRows(state) == state

ExceptHandler(state) == [state EXCEPT !.df_results = <<>>]

\* finally: running_query = False
\* (Variant: the flag not cleared.)
FinallySkipped(state) == state

Finally(state) == [state EXCEPT !.running_query = FALSE]

\* The date widgets: one date used for both ends, or two independent dates.
DateSelection(mode) ==
    IF mode = "Single Date" THEN { <<d, d>> : d \in Dates }
    ELSE Dates \X Dates

----------------------------------------------------------------------------
(* The script.  pc is the place the current run has reached:               *)
(*   idle     no run in progress                                           *)
(*   params   connected, at the query-parameter check (line 26)            *)
(*   session  at the session-state defaults (line 66)                      *)
(*   button   at the widgets (line 72)                                     *)
(*   query    the button was clicked, at line 88                           *)
(*   execute  inside the try block (line 90)                               *)
(*   display  at the results section (line 120)                            *)
(*   done     the run has ended (end of script or st.stop())               *)

NoItemId == "no item_id"

NoCalls == [connect |-> 0, execute |-> 0]

NoRead == [item_id |-> NoItemId, item |-> NoRow]

Init ==
    /\ daily_sold_items \in TablesUpTo(ItemRows, MaxItemRows)
    /\ item_sold_dates \in TablesUpTo(SaleRows, MaxSaleRows)
    /\ session_state = << >>
    /\ pc = "idle"
    /\ query_button = FALSE
    /\ button_disabled = FALSE
    /\ start_date = NoDate
    /\ end_date = NoDate
    /\ db_raised = "none"
    /\ error = "none"
    /\ calls = NoCalls
    /\ item_id = NoItemId
    /\ item = NoRow
    /\ filters = NoFilters
    /\ df_filtered = << >>
    /\ page_data = << >>
    /\ first_read = NoRead

tables == <<daily_sold_items, item_sold_dates>>
query_locals == <<query_button, button_disabled, start_date, end_date>>
detail_locals == <<item_id, item, first_read>>

display_locals == <<filters, df_filtered, page_data>>

\* Lines 12-23: connect; on mysql.connector.Error show it and stop the run.
Connect ==
    /\ pc = "idle"
    /\ calls' = [calls EXCEPT !.connect = @ + 1]
    /\ \E raised \in BOOLEAN :
          IF raised
          THEN /\ db_raised' = "connect"
               /\ error' = "Database connection failed"
               /\ pc' = "done"
          ELSE /\ pc' = "params"
               /\ UNCHANGED <<db_raised, error>>
    /\ UNCHANGED <<tables, session_state, query_locals, detail_locals,
                   display_locals>>

\* Lines 26-64: with item_id in the query parameters, look the item up,
\* show it (or "Item not found.") and stop the run.
DetailLookup ==
    /\ pc = "params"
    /\ \E id \in ItemIds \cup {NoItemId} :
          /\ item_id' = id
          /\ IF id # NoItemId
             THEN /\ \E row \in FetchItem(daily_sold_items, id) : item' = row
                  /\ pc' = "done"
             ELSE /\ pc' = "session"
                  /\ UNCHANGED item
    /\ UNCHANGED <<tables, session_state, query_locals, db_raised, error,
                   calls, display_locals>>

DetailPage == DetailLookup /\ UNCHANGED first_read

\* The same step, with the session's first successful lookup remembered.
RecordedDetailPage ==
    /\ DetailLookup
    /\ first_read' = IF first_read = NoRead /\ item' # NoRow
                     THEN [item_id |-> item_id', item |-> item']
                     ELSE first_read

\* Lines 67-70: defaults for the keys not yet in st.session_state.
SessionDefaults(state) ==
    [k \in DOMAIN state \cup {"running_query", "df_results"} |->
        IF k \in DOMAIN state THEN state[k]
        ELSE IF k = "running_query" THEN FALSE ELSE << >>]

InitSession ==
    /\ pc = "session"
    /\ session_state' = SessionDefaults(session_state)
    /\ pc' = "button"
    /\ UNCHANGED <<tables, query_locals, db_raised, error, calls,
                   detail_locals, display_locals>>

\* Lines 72-85: the date widgets and the Run Query button.  A disabled
\* button cannot be clicked.
RenderButton ==
    /\ pc = "button"
    /\ button_disabled' = session_state.running_query
    /\ \E clicked \in BOOLEAN :
          /\ clicked => ~session_state.running_query
          /\ query_button' = clicked
          /\ pc' = IF clicked THEN "query" ELSE "display"
    /\ UNCHANGED <<tables, session_state, start_date, end_date, db_raised,
                   error, calls, detail_locals, display_locals>>

\* Lines 88-89: st.session_state.running_query = True
BeginQuery ==
    /\ pc = "query"
    /\ session_state' = [session_state EXCEPT !.running_query = TRUE]
    /\ pc' = "execute"
    /\ UNCHANGED <<tables, query_locals, db_raised, error, calls,
                   detail_locals, display_locals>>

\* Lines 90-118: format the dates the widgets of lines 73-82 hold (their
\* values are drawn here, where the run first reads them), run the
\* aggregation and store its rows; on mysql.connector.Error show it and
\* store an empty frame; in both cases clear running_query.
ExecuteQuery ==
    /\ pc = "execute"
    /\ calls' = [calls EXCEPT !.execute = @ + 1]
    /\ \E mode \in {"Single Date", "Date Range"} :
       \E picked \in DateSelection(mode) :
          /\ start_date' = picked[1]
          /\ end_date' = picked[2]
          /\ \E raised \in BOOLEAN :
                IF raised
                THEN /\ db_raised' = "execute"
                     /\ error' = "MySQL Error"
                     /\ session_state' = Finally(ExceptHandler(session_state))
                ELSE /\ \E rows \in SummaryQuery(daily_sold_items, item_sold_dates,
                                                StrFTime(picked[1]),
                                                StrFTime(picked[2])) :
                           session_state' =
                               Finally(StoreResults(session_state, rows))
                     /\ UNCHANGED <<db_raised, error>>
    /\ pc' = "display"
    /\ UNCHANGED <<tables, query_button, button_disabled, detail_locals,
                   display_locals>>

\* Lines 121-174: with stored rows, render the filter widgets, filter a
\* copy of the rows and show one page of it; otherwise ask for a query.
Display ==
    /\ pc = "display"
    /\ LET df == session_state.df_results
       IN  IF df # << >>
           THEN \E f \in FilterInputs(df) :
                   LET filtered == ApplyFilters(df, f)
                   IN  /\ filters' = f
                       /\ df_filtered' = filtered
                       /\ session_state' = AfterApplyFilters(session_state, filtered)
                       /\ IF filtered # << >>
                          THEN \E page \in 1..TotalPages(filtered) :
                                  page_data' = PageData(filtered, page)
                          ELSE page_data' = << >>
           ELSE /\ filters' = NoFilters
                /\ df_filtered' = << >>
                /\ page_data' = << >>
                /\ UNCHANGED session_state
    /\ pc' = "done"
    /\ UNCHANGED <<tables, query_locals, db_raised, error, calls, detail_locals>>

\* The run is over: its local variables and its output are gone, only
\* st.session_state is kept for the next run.
EndRun ==
    /\ pc = "done"
    /\ pc' = "idle"
    /\ query_button' = FALSE
    /\ button_disabled' = FALSE
    /\ start_date' = NoDate
    /\ end_date' = NoDate
    /\ db_raised' = "none"
    /\ error' = "none"
    /\ calls' = NoCalls
    /\ item_id' = NoItemId
    /\ item' = NoRow
    /\ filters' = NoFilters
    /\ df_filtered' = << >>
    /\ page_data' = << >>
    /\ UNCHANGED <<tables, session_state, first_read>>

Next ==
    \/ Connect
    \/ DetailPage
    \/ InitSession
    \/ RenderButton
    \/ BeginQuery
    \/ ExecuteQuery
    \/ Display
    \/ EndRun

Spec == Init /\ [][Next]_vars

\* The script with the first detail lookup of the session kept as history.
NextRecorded ==
    \/ Connect
    \/ RecordedDetailPage
    \/ InitSession
    \/ RenderButton
    \/ BeginQuery
    \/ ExecuteQuery
    \/ Display
    \/ EndRun

SpecRecorded == Init /\ [][NextRecorded]_vars

----------------------------------------------------------------------------
(* Vocabulary of the properties.                                           *)

\* The rows of the stored result set (none while the key is not yet set).
StoredRows ==
    IF "df_results" \in DOMAIN session_state THEN session_state.df_results
    ELSE << >>

RunningQueryIs(b) ==
    /\ "running_query" \in DOMAIN session_state
    /\ session_state.running_query = b

\* This run clicked Run Query and is past the query block.
AfterQuery == pc \in {"display", "done"} /\ query_button

\* ... and the store raised nothing: StoredRows is this query's result.
AfterGoodQuery == AfterQuery /\ db_raised = "none"

InvertedRange == ~DateLE(start_date, end_date)

\* The sale rows of an item with start_date <= sold_date <= end_date.
SalesInRange(id) ==
    { sr \in Stored(item_sold_dates) :
        /\ sr.ebay_item_number = id
        /\ DateLE(start_date, sr.sold_date)
        /\ DateLE(sr.sold_date, end_date) }

\* The quantity sold of an item in the range, every stored sale row once.
QuantityInRange(id) ==
    LET sales == SalesInRange(id)
    IN  SumOver([sr \in sales |-> item_sold_dates[sr] * sr.quantity_sold], sales)

HasItemRow(id) == \E dr \in Stored(daily_sold_items) : dr.ebay_item_number = id
HasSaleRow(id) == \E sr \in Stored(item_sold_dates) : sr.ebay_item_number = id

\* The attribute snapshot a row shows for its item.
Snapshot(r) ==
    [title |-> r.title, price |-> r.price, product_url |-> r.product_url,
     sku |-> r.sku]

\* Case-insensitive containment, stated letter by letter.
SameLetter(a, b) ==
    \/ a = b
    \/ {a, b} \in { {"a", "A"}, {"b", "B"}, {"c", "C"}, {"x", "X"} }

ContainsIgnoringCase(text, pat) ==
    /\ text # NullStr
    /\ \E o \in 0..(Len(text) - Len(pat)) :
          \A k \in 1..Len(pat) : SameLetter(text[o + k], pat[k])

Rows(df) == { df[k] : k \in 1..Len(df) }

\* sub lists exactly the rows of df that satisfy keep, in df's order.
IsSelection(sub, df, keep(_)) ==
    /\ Rows(sub) = { r \in Rows(df) : keep(r) }
    /\ Len(sub) = Cardinality({ k \in 1..Len(df) : keep(df[k]) })
    /\ \A i, j \in 1..Len(sub) :
          i < j => \E m, n \in 1..Len(df) :
                      m < n /\ df[m] = sub[i] /\ df[n] = sub[j]

FiltersShown == pc = "done" /\ filters # NoFilters

----------------------------------------------------------------------------
(* C1.  Every row a successful Run Query returns has total_quantity_sold   *)
(* equal to the sum of quantity_sold over the sale rows of its item with   *)
(* start_date <= sold_date <= end_date, each counted exactly once.         *)
C1_TotalIsRangeSum ==
    AfterGoodQuery =>
        \A k \in 1..Len(StoredRows) :
            StoredRows[k].total_quantity_sold =
                QuantityInRange(StoredRows[k].ebay_item_number)

(* C2.  The result set of one Run Query holds at most one row per item     *)
(* identifier.                                                             *)
C2_OneRowPerItem ==
    AfterGoodQuery =>
        \A j, k \in 1..Len(StoredRows) :
            StoredRows[j].ebay_item_number = StoredRows[k].ebay_item_number
                => j = k

(* C3.  When an item has a sale row in the queried range and no attribute  *)
(* row, the Run Query request surfaces an error instead of returning a     *)
(* result set without that item.                                           *)
C3_OrphanSaleFailsLoudly ==
    (AfterQuery /\ \E id \in ItemIds : SalesInRange(id) # {} /\ ~HasItemRow(id))
        => error # "none"

(* C4 (as amended).  A Run Query with start_date > end_date shows no error *)
(* unless the store raised one, and stores an empty result set: no item is *)
(* reported at all.                                                        *)
C4_InvertedRangeGivesNoRows ==
    (AfterQuery /\ InvertedRange) =>
        /\ StoredRows = << >>
        /\ db_raised = "none" => error = "none"

\* A query with an inverted range has run against tables whose join is not
\* empty.
C4_Witness ==
    /\ AfterGoodQuery /\ InvertedRange
    /\ \E id \in ItemIds : HasItemRow(id) /\ HasSaleRow(id)

(* C4 as stated: with start_date > end_date every item (with an attribute  *)
(* row and at least one sale) is reported, with a sold count of 0.         *)
C4_EveryItemReportedWithZero ==
    (AfterGoodQuery /\ InvertedRange) =>
        \A id \in ItemIds :
            (HasItemRow(id) /\ HasSaleRow(id)) =>
                \E k \in 1..Len(StoredRows) :
                    /\ StoredRows[k].ebay_item_number = id
                    /\ StoredRows[k].total_quantity_sold = 0

(* C5.  An item without any sale row appears in no result set.             *)
C5_NoSalesNoRow ==
    \A k \in 1..Len(StoredRows) : HasSaleRow(StoredRows[k].ebay_item_number)

\* A query returned rows while the item table also holds an item that was
\* never sold.
C5_Witness ==
    /\ AfterGoodQuery /\ StoredRows # << >>
    /\ \E id \in ItemIds : HasItemRow(id) /\ ~HasSaleRow(id)

C7_StoreErrorSurfacedOnce ==
    /\ db_raised = "connect" =>
          /\ error = "Database connection failed"
          /\ calls = [connect |-> 1, execute |-> 0]
          /\ pc = "done"
    /\ db_raised = "execute" =>
          /\ error = "MySQL Error"
          /\ calls = [connect |-> 1, execute |-> 1]
          /\ StoredRows = << >>
          /\ df_filtered = << >> /\ page_data = << >>

\* The aggregation raised for a range in which it had rows to return.
C7_Witness ==
    /\ pc = "done" /\ db_raised = "execute"
    /\ SummaryRows(daily_sold_items, item_sold_dates,
                   StrFTime(start_date), StrFTime(end_date)) # {}

(* C8.  For a fixed store content every attribute read resolves an item to *)
(* one and the same snapshot: repeated detail-page lookups return the same *)
(* row, and the rollup shows one snapshot per item.                        *)
C8_OneSnapshotPerItem ==
    /\ (pc = "done" /\ item # NoRow /\ item_id = first_read.item_id)
          => item = first_read.item
    /\ \A j, k \in 1..Len(StoredRows) :
          StoredRows[j].ebay_item_number = StoredRows[k].ebay_item_number
              => Snapshot(StoredRows[j]) = Snapshot(StoredRows[k])

(* C9.  running_query is False wherever the Run Query button is rendered   *)
(* and at the end of every run that reached the session-state section, it  *)
(* is True nowhere outside the try block, and the button is never rendered *)
(* disabled.                                                               *)
C9_RunningQueryNeverStuck ==
    /\ pc # "execute" => ~RunningQueryIs(TRUE)
    /\ pc \in {"button", "query", "display"} => RunningQueryIs(FALSE)
    /\ (pc = "done" /\ db_raised # "connect" /\ item_id = NoItemId)
          => RunningQueryIs(FALSE)
    /\ button_disabled = FALSE

\* A run whose aggregation raised has ended.
C9_Witness == pc = "done" /\ query_button /\ db_raised = "execute"

(* C10.  The stored result set changes only in the query block of a run in *)
(* which Run Query was clicked: connection failures, detail pages, filter  *)
(* and page changes leave it as the last Run Query left it, and filtering  *)
(* does not modify the stored rows.                                        *)
C10_ResultsChangeOnlyInQuery ==
    [][ StoredRows' # StoredRows => (pc = "execute" /\ query_button) ]_vars

\* A run without a click has filtered a row out of the stored result set.
C10_Witness ==
    /\ pc = "done" /\ ~query_button
    /\ filters # NoFilters
    /\ Len(df_filtered) < Len(StoredRows)

====
